---- MODULE Spec2Model ----
(***************************************************************************)
(* Model of the scheduling core of smart_task_planner_final.py:            *)
(* topo_sort (lines 62-79) and schedule_tasks (lines 81-106).              *)
(*                                                                         *)
(* Time is counted in units of half an hour (UnitsPerHour units per hour), *)
(* so that an estimate of 0.5 hours is representable.  Python floats are   *)
(* modelled by exact rationals: the ratio and the rendered hours are kept  *)
(* as pairs <<numerator, denominator>>.                                    *)
(*                                                                         *)
(* Task ids are unique; the i-th task of the batch carries id i and id 0   *)
(* names no task of the batch (a dangling dependency).                     *)
(***************************************************************************)
EXTENDS Integers, Sequences, FiniteSets, TLC

VARIABLES
    tasks,               \* the batch: sequence of task records, in input order
    start_dt,            \* start instant (units since midnight of day 0)
    deadline,            \* <<>> for None, <<t>> for a deadline instant t
    work_hours_per_day,
    call,                \* which function the caller invoked
    pc,                  \* position in the invoked function
    graph, indeg, q, order,   \* locals of topo_sort
    pending,             \* successors of the popped node not yet visited
    est, dur,            \* locals of schedule_tasks, first loop
    ratio,               \* <<num, den>>
    h,                   \* rendered hours per task, <<num, den>> in units
    out,                 \* the returned schedule
    err,                 \* "none" or the name of the exception raised
    run,                 \* 1 for the first call, 2 for the repeated call
    first                \* what the first call returned

vars == <<tasks, start_dt, deadline, work_hours_per_day, call, pc, graph,
          indeg, q, order, pending, est, dur, ratio, h, out, err, run, first>>

inputs == <<tasks, start_dt, deadline, work_hours_per_day, call>>
topoLocals == <<graph, indeg, q, order, pending>>
schedLocals == <<est, dur, ratio, h, out>>

----------------------------------------------------------------------------
(* Bounds of the exploration *)

MaxTasks == 3        \* tasks in a batch
MaxDeps == 2         \* entries in one depends_on list
MaxEdges == 3        \* entries in all depends_on lists of a batch together

(* Units *)
UnitsPerHour == 2
UnitsPerDay == 24 * UnitsPerHour

Hours(x) == x * UnitsPerHour

----------------------------------------------------------------------------
(* Helpers *)

SetMax(S) == CHOOSE x \in S : \A y \in S : y <= x

Max2(a, b) == IF a >= b THEN a ELSE b

RECURSIVE FilterSeq(_, _)
\* the subsequence of s whose elements are in S, order kept
FilterSeq(s, S) ==
    IF s = <<>> THEN <<>>
    ELSE IF Head(s) \in S THEN <<Head(s)>> \o FilterSeq(Tail(s), S)
         ELSE FilterSeq(Tail(s), S)

Range(s) == {s[i] : i \in DOMAIN s}

Ids == {tasks[i].id : i \in DOMAIN tasks}
IdSeq == [i \in DOMAIN tasks |-> tasks[i].id]

\* tmap = {t["id"]: t for t in tasks}
tmap(tid) == tasks[CHOOSE i \in DOMAIN tasks : tasks[i].id = tid]

\* t.get("depends_on", []) or []
DependsOn(tid) == tmap(tid).depends_on

----------------------------------------------------------------------------
(* topo_sort, lines 62-79 *)

\* lines 64-70: graph[dep] collects the ids of the tasks that list dep
GraphOf ==
    [n \in Ids |-> {tid \in Ids : \E i \in DOMAIN DependsOn(tid) :
                                      DependsOn(tid)[i] = n}]

\* lines 67-70: indeg is incremented once per ENTRY of depends_on that names
\* a task of the batch (a repeated entry is counted again)
IndegOf ==
    [tid \in Ids |-> Cardinality({i \in DOMAIN DependsOn(tid) :
                                      DependsOn(tid)[i] \in Ids})]

BuildGraph ==
    /\ pc \in {"topo_sort", "schedule_tasks"}
    /\ graph' = GraphOf
    /\ indeg' = IndegOf
    /\ pc' = "seed"
    /\ UNCHANGED <<inputs, q, order, pending, schedLocals, err, run, first>>

\* line 71: q = [n for n, d in indeg.items() if d == 0]; dicts keep
\* insertion order, which is batch order
SeedOf(deg) == FilterSeq(IdSeq, {n \in Ids : deg[n] = 0})

SeedQueue ==
    /\ pc = "seed"
    /\ q' = SeedOf(indeg)
    /\ order' = <<>>
    /\ pending' = {}
    /\ pc' = "loop"
    /\ UNCHANGED <<inputs, graph, indeg, schedLocals, err, run, first>>

\* lines 72-73: n = q.pop(0); order.append(n); then the for loop over
\* graph[n] starts
Pop ==
    /\ pc = "loop"
    /\ pending = {}
    /\ q # <<>>
    /\ q' = Tail(q)
    /\ order' = Append(order, Head(q))
    /\ pending' = graph[Head(q)]
    /\ UNCHANGED <<inputs, pc, graph, indeg, schedLocals, err, run, first>>

\* the successor is queued without looking at its in-degree
EnqueueAlways(queue, deg, v) == Append(queue, v)

\* line 76: if indeg[v] == 0: q.append(v)
Enqueue(queue, deg, v) == IF deg[v] = 0 THEN Append(queue, v) ELSE queue

\* lines 74-76: one iteration of "for v in graph.get(n, [])"; graph[n] is a
\* set of strings, whose iteration order depends on the process's string
\* hash seed: any not yet visited successor may come next
Visit ==
    /\ pc = "loop"
    /\ pending # {}
    /\ \E v \in pending :
          /\ indeg' = [indeg EXCEPT ![v] = @ - 1]
          /\ q' = Enqueue(q, indeg', v)
          /\ pending' = pending \ {v}
    /\ UNCHANGED <<inputs, pc, graph, order, schedLocals, err, run, first>>

\* the unreached tasks are dropped
TailOfNone(ord) == <<>>

\* lines 77-78: the tasks never reached, in batch order
TailOf(ord) == FilterSeq(IdSeq, Ids \ Range(ord))

\* lines 77-79, and the return to the caller (line 83 when schedule_tasks
\* made the call)
AppendTail ==
    /\ pc = "loop"
    /\ pending = {}
    /\ q = <<>>
    /\ order' = order \o TailOf(order)
    /\ pc' = IF call = "topo_sort" THEN "returned" ELSE "earliest"
    /\ UNCHANGED <<inputs, graph, indeg, q, pending, schedLocals, err, run,
                   first>>

----------------------------------------------------------------------------
(* schedule_tasks, lines 81-106 *)

\* an estimated_hours field is <<kind, units>>: the key is absent, or its value
\* is null, a non-numeric string, or a number (in units)
Kind(e) == e[1]
Value(e) == e[2]

Estimate(tid) == tmap(tid).estimated_hours

\* line 85: float(t.get("estimated_hours", 2) or 2) raises on a string that
\* is no number
FirstLoopError(e) == IF Kind(e) = "text" THEN "ValueError" ELSE "none"

\* every task gets the default of 2 hours
FirstLoopUnitsDefault(e) == Hours(2)

\* line 85: float(t.get("estimated_hours", 2) or 2); a missing key, null and
\* 0 all give 2
FirstLoopUnits(e) ==
    IF Kind(e) = "num" /\ Value(e) # 0 THEN Value(e) ELSE Hours(2)

\* lines 93 and 98: float(t.get("estimated_hours", 2)) raises on null and on
\* a string that is no number
FloorError(e) ==
    CASE Kind(e) = "null" -> "TypeError"
      [] Kind(e) = "text" -> "ValueError"
      [] OTHER -> "none"

\* lines 93 and 98: max(float(t.get("estimated_hours", 2)), 1)
FloorUnits(e) ==
    IF Kind(e) = "num" THEN Max2(Value(e), Hours(1)) ELSE Hours(2)

RECURSIVE FirstLoopRaise(_)
\* line 85 over the loop of line 84: the exception of the first task of ord
\* whose estimate raises
FirstLoopRaise(ord) ==
    IF ord = <<>> THEN "none"
    ELSE IF FirstLoopError(Estimate(Head(ord))) # "none"
         THEN FirstLoopError(Estimate(Head(ord)))
         ELSE FirstLoopRaise(Tail(ord))

RECURSIVE FloorRaise(_)
\* lines 93 and 98 over their loops: the exception of the first task of ord
\* whose estimate raises
FloorRaise(ord) ==
    IF ord = <<>> THEN "none"
    ELSE IF FloorError(Estimate(Head(ord))) # "none"
         THEN FloorError(Estimate(Head(ord)))
         ELSE FloorRaise(Tail(ord))

\* line 86: dur[tid] = timedelta(hours=h)
DurOf(tid) == FirstLoopUnits(Estimate(tid))

\* the earliest instead of the latest end of the dependencies
EarliestOfMin(ends) ==
    IF ends = {} THEN start_dt ELSE CHOOSE x \in ends : \A y \in ends : x <= y

\* line 88: max((est[d] + dur[d] for d in deps if d in est), default=start_dt)
EarliestOf(ends) == IF ends = {} THEN start_dt ELSE SetMax(ends)

RECURSIVE EstUpTo(_, _)
\* lines 84-88: est after the first k tasks of ord
EstUpTo(ord, k) ==
    IF k = 0 THEN <<>>
    ELSE LET prev == EstUpTo(ord, k - 1)
             tid == ord[k]
             ends == {prev[d] + DurOf(d) :
                         d \in Range(DependsOn(tid)) \cap DOMAIN prev}
         IN  prev @@ (tid :> EarliestOf(ends))

\* lines 84-88
EarliestStart ==
    /\ pc = "earliest"
    /\ IF FirstLoopRaise(order) # "none"
       THEN /\ err' = FirstLoopRaise(order)
            /\ pc' = "raised"
            /\ UNCHANGED <<est, dur>>
       ELSE /\ est' = EstUpTo(order, Len(order))
            /\ dur' = [tid \in Ids |-> DurOf(tid)]
            /\ pc' = "compress"
            /\ UNCHANGED err
    /\ UNCHANGED <<inputs, topoLocals, ratio, h, out, run, first>>

\* line 91: max((est[t] + dur[t] for t in order), default=start_dt)
NaiveEnd ==
    IF order = <<>> THEN start_dt
    ELSE SetMax({est[t] + dur[t] : t \in Range(order)})

RECURSIVE SumFloorUnits(_)
\* line 93: sum(max(float(...), 1) for t in order), in units
SumFloorUnits(ord) ==
    IF ord = <<>> THEN 0
    ELSE FloorUnits(Estimate(Head(ord))) + SumFloorUnits(Tail(ord))

\* line 94: max((deadline - start_dt).days, 1) * work_hours_per_day; .days is
\* the floor of the difference in days
HoursAvail(dl) ==
    Max2((dl - start_dt) \div UnitsPerDay, 1) * work_hours_per_day

\* the ratio without its floor
FloorRatioMissing(r) == r

\* line 95: max(x, 0.25) on the rational x = r[1] / r[2]
FloorRatio(r) == IF 4 * r[1] >= r[2] THEN r ELSE <<1, 4>>

\* line 95: ratio = max(hours_avail/total_h, 0.25), total_h being in units
RatioOf(dl, total) == FloorRatio(<<HoursAvail(dl) * UnitsPerHour, total>>)

\* line 92
Overrun == deadline # <<>> /\ NaiveEnd > deadline[1]

\* lines 89-95
Compress ==
    /\ pc = "compress"
    /\ IF ~Overrun
       THEN /\ ratio' = <<1, 1>>
            /\ pc' = "render"
            /\ UNCHANGED err
       ELSE IF FloorRaise(order) # "none"
       THEN /\ err' = FloorRaise(order)
            /\ pc' = "raised"
            /\ UNCHANGED ratio
       ELSE IF SumFloorUnits(order) = 0
       THEN /\ err' = "ZeroDivisionError"
            /\ pc' = "raised"
            /\ UNCHANGED ratio
       ELSE /\ ratio' = RatioOf(deadline[1], SumFloorUnits(order))
            /\ pc' = "render"
            /\ UNCHANGED err
    /\ UNCHANGED <<inputs, topoLocals, est, dur, h, out, run, first>>

\* line 98: h = max(float(t.get("estimated_hours", 2)),1)*ratio, as the
\* rational <<num, den>> of units
RenderedUnits(tid, r) == <<FloorUnits(Estimate(tid)) * r[1], r[2]>>

\* the integer nearest to a / b (a >= 0, b > 0), a tie going to the even one
RoundHalfEven(a, b) ==
    LET lo == a \div b
        rem == a % b
    IN  IF 2 * rem < b THEN lo
        ELSE IF 2 * rem > b THEN lo + 1
        ELSE IF lo % 2 = 0 THEN lo ELSE lo + 1

\* lines 102-103: the calendar day of an instant t[1] / t[2] units
DateOf(t) == t[1] \div (t[2] * UnitsPerDay)

\* lines 99-105; duration_hours is round(h, 1), kept in tenths of an hour
Entry(tid, r) ==
    LET hh == RenderedUnits(tid, r)
        s == est[tid]
    IN  [id |-> tid,
         name |-> tid,
         start_date |-> DateOf(<<s, 1>>),
         end_date |-> DateOf(<<s * hh[2] + hh[1], hh[2]>>),
         duration_hours |-> RoundHalfEven(10 * hh[1], hh[2] * UnitsPerHour)]

\* lines 96-106
Render ==
    /\ pc = "render"
    /\ IF FloorRaise(order) # "none"
       THEN /\ err' = FloorRaise(order)
            /\ pc' = "raised"
            /\ UNCHANGED <<h, out>>
       ELSE /\ h' = [tid \in Ids |-> RenderedUnits(tid, ratio)]
            /\ out' = [i \in DOMAIN order |-> Entry(order[i], ratio)]
            /\ pc' = "returned"
            /\ UNCHANGED err
    /\ UNCHANGED <<inputs, topoLocals, est, dur, ratio, run, first>>

\* line 83: order = topo_sort(tasks) runs the steps of topo_sort
----------------------------------------------------------------------------
(* Repeating the call on the identical input *)

Rerun ==
    /\ pc \in {"returned", "raised"}
    /\ run = 1
    /\ run' = 2
    /\ first' = [order |-> order, out |-> out, err |-> err]
    /\ pc' = call
    /\ graph' = <<>> /\ indeg' = <<>> /\ q' = <<>> /\ order' = <<>>
    /\ pending' = {}
    /\ est' = <<>> /\ dur' = <<>> /\ ratio' = <<1, 1>> /\ h' = <<>>
    /\ out' = <<>>
    /\ err' = "none"
    /\ UNCHANGED inputs

----------------------------------------------------------------------------
(* Inputs *)

\* depends_on lists of k entries, up to the order of the entries (topo_sort
\* and schedule_tasks read a list only through set insertion, counting and
\* max); entries are ids of the batch or the dangling id 0
DepLists(n, k) ==
    {s \in [1..k -> 0..n] : \A i \in 1..(k - 1) : s[i] <= s[i + 1]}

RECURSIVE DepConfigsUpTo(_, _, _)
\* the depends_on lists of the first k tasks of a batch of n, with at most
\* budget entries together
DepConfigsUpTo(k, n, budget) ==
    IF k = 0 THEN {<<>>}
    ELSE UNION {LET rest == DepConfigsUpTo(k - 1, n, budget - j)
                    lists == DepLists(n, j)
                IN  {Append(c, l) : c \in rest, l \in lists}
                : j \in 0..(IF budget < MaxDeps THEN budget ELSE MaxDeps)}

DepConfigs(n) == DepConfigsUpTo(n, n, MaxEdges)

Num(v) == <<"num", v>>
Absent == <<"absent", 0>>
Null == <<"null", 0>>
Text == <<"text", 0>>

Task(i, deps, e) == [id |-> i, depends_on |-> deps, estimated_hours |-> e]

\* a batch of n tasks with the depends_on lists f and the estimates e
Batch(n, f, e) == [i \in 1..n |-> Task(i, f[i], e[i])]

InitLocals ==
    /\ graph = <<>> /\ indeg = <<>> /\ q = <<>> /\ order = <<>>
    /\ pending = {}
    /\ est = <<>> /\ dur = <<>> /\ ratio = <<1, 1>> /\ h = <<>>
    /\ out = <<>>
    /\ err = "none"
    /\ run = 1
    /\ first = [order |-> <<>>, out |-> <<>>, err |-> "none"]

\* estimated_hours values: key absent, null, a non-numeric string, 0, 0.5,
\* 2, 8 and 30 hours
EstChoices ==
    {Absent, Null, Text, Num(0), Num(1), Num(Hours(2)), Num(Hours(8)),
     Num(Hours(30))}

\* deadlines relative to the start: one hour before, equal, one hour, one day
\* and two days after
DeadlineOffsets == {0 - Hours(1), 0, Hours(1), Hours(24), Hours(48)}

\* every dependency structure, estimates of 2 hours
TwoHourBatch ==
    \E n \in 0..MaxTasks : \E f \in DepConfigs(n) :
        tasks = Batch(n, f, [i \in 1..n |-> Num(Hours(2))])

\* the tasks form a chain in batch order, with every kind of estimate
ChainBatch ==
    \E n \in 0..MaxTasks : \E e \in [1..n -> EstChoices] :
        tasks = Batch(n, [i \in 1..n |-> IF i = 1 THEN <<>> ELSE <<i - 1>>], e)

\* every dependency structure, estimates of 2 or 8 hours
GraphBatch ==
    \E n \in 0..MaxTasks : \E f \in DepConfigs(n) :
        \E e \in [1..n -> {Num(Hours(2)), Num(Hours(8))}] :
            tasks = Batch(n, f, e)

InitOrder ==
    /\ TwoHourBatch
    /\ start_dt = 0
    /\ deadline = <<>>
    /\ work_hours_per_day = 6
    /\ call = "topo_sort"
    /\ pc = "topo_sort"
    /\ InitLocals

InitSched ==
    /\ \/ /\ ChainBatch
          /\ start_dt = Hours(18)
          /\ deadline \in {<<>>} \cup {<<start_dt + d>> : d \in DeadlineOffsets}
          /\ work_hours_per_day = 6
       \/ /\ GraphBatch
          /\ start_dt = Hours(9)
          /\ deadline \in {<<>>, <<start_dt + Hours(1)>>}
          /\ work_hours_per_day = 8
    /\ call = "schedule_tasks"
    /\ pc = "schedule_tasks"
    /\ InitLocals

InitTwice ==
    /\ TwoHourBatch
    /\ start_dt = Hours(9)
    /\ deadline \in {<<>>, <<start_dt + Hours(1)>>}
    /\ work_hours_per_day = 6
    /\ call = "schedule_tasks"
    /\ pc = "schedule_tasks"
    /\ InitLocals

NextOrder ==
    \/ BuildGraph
    \/ SeedQueue
    \/ Pop
    \/ Visit
    \/ AppendTail

SpecOrder == InitOrder /\ [][NextOrder]_vars

LiveOrder == SpecOrder /\ WF_vars(NextOrder)

NextSched ==
    \/ BuildGraph
    \/ SeedQueue
    \/ Pop
    \/ Visit
    \/ AppendTail
    \/ EarliestStart
    \/ Compress
    \/ Render

SpecSched == InitSched /\ [][NextSched]_vars

NextTwice ==
    \/ BuildGraph
    \/ SeedQueue
    \/ Pop
    \/ Visit
    \/ AppendTail
    \/ EarliestStart
    \/ Compress
    \/ Render
    \/ Rerun

SpecTwice == InitTwice /\ [][NextTwice]_vars

----------------------------------------------------------------------------
(* Properties of topo_sort *)

Pos(s, x) == CHOOSE i \in DOMAIN s : s[i] = x

IsPermutationOfIds(s) ==
    /\ Len(s) = Cardinality(Ids)
    /\ Range(s) = Ids

\* the in-batch dependency relation and its acyclicity
DepEdge(a, b) == a \in Ids /\ b \in Ids /\ a \in Range(DependsOn(b))

RECURSIVE ReachIn(_, _)
\* the ids reachable from the set S in at most k dependency steps
ReachIn(S, k) ==
    IF k = 0 THEN S
    ELSE LET R == ReachIn(S, k - 1)
         IN  R \cup {b \in Ids : \E a \in R : DepEdge(a, b)}

Successors(a) == {b \in Ids : DepEdge(a, b)}

Acyclic == \A a \in Ids : a \notin ReachIn(Successors(a), Cardinality(Ids))

TopoReturned == pc = "returned" /\ call = "topo_sort"

\* C1: topo_sort returns a sequence that holds every id of the batch exactly
\* once and no other id, whatever the dependency graph is
OrderIsPermutation == TopoReturned => IsPermutationOfIds(order)

\* C1 witness: topo_sort has returned for a batch with a cycle and a dangling
\* dependency
OrderIsPermutationWitness ==
    /\ TopoReturned
    /\ ~Acyclic
    /\ \E tid \in Ids : 0 \in Range(DependsOn(tid))
    /\ Len(order) = MaxTasks

\* C2: for an acyclic batch every task comes after each of its declared
\* in-batch dependencies in the returned order
DepsComeFirst ==
    (TopoReturned /\ Acyclic) =>
        \A a, b \in Ids : DepEdge(a, b) => Pos(order, a) < Pos(order, b)

\* C3: no node is put on the queue twice, and topo_sort returns
NeverEnqueuedTwice ==
    \A i, j \in DOMAIN q : i # j => q[i] # q[j]

QueueDisjointFromOrder ==
    pc = "loop" => Range(q) \cap Range(order) = {}

TopoTerminates ==
    /\ <>(pc = "returned")
    /\ [](NeverEnqueuedTwice /\ QueueDisjointFromOrder)

\* C3 witness: topo_sort has returned for a batch with a self-dependency and
\* a two-task cycle
TopoTerminatesWitness ==
    /\ TopoReturned
    /\ \E a \in Ids : DepEdge(a, a)
    /\ \E a, b \in Ids : a # b /\ DepEdge(a, b) /\ DepEdge(b, a)

----------------------------------------------------------------------------
(* Properties of schedule_tasks *)

Done == pc = "returned" /\ call = "schedule_tasks"
Ended == pc \in {"returned", "raised"} /\ call = "schedule_tasks"

\* comparisons of rationals <<num, den>> with positive denominators
RatEq(r, s) == r[1] * s[2] = s[1] * r[2]
RatLeq(r, s) == r[1] * s[2] <= s[1] * r[2]
RatLess(r, s) == r[1] * s[2] < s[1] * r[2]

\* the estimate of a task as the data model gives it: the number, or the
\* default of 2 hours when there is none
EstimatedUnits(tid) ==
    IF Kind(Estimate(tid)) = "num" THEN Value(Estimate(tid)) ELSE Hours(2)

RECURSIVE DemandUnits(_)
\* demand_hours: the sum over the first k tasks of max(estimated_hours, 1)
DemandUnits(k) ==
    IF k = 0 THEN 0
    ELSE Max2(EstimatedUnits(tasks[k].id), Hours(1)) + DemandUnits(k - 1)

WholeDays == (deadline[1] - start_dt) \div UnitsPerDay

\* available_hours / demand_hours
Supply == <<Max2(WholeDays, 1) * work_hours_per_day * UnitsPerHour,
            DemandUnits(Len(tasks))>>

\* C4: under a deadline that the naive plan overruns, the ratio is
\* max(available_hours / demand_hours, 0.25); and no rendered duration is
\* below a quarter of the task's estimate
RatioFloored ==
    Done =>
        /\ Overrun =>
              IF RatLeq(<<1, 4>>, Supply) THEN RatEq(ratio, Supply)
              ELSE RatEq(ratio, <<1, 4>>)
        /\ \A tid \in Ids : RatLeq(<<EstimatedUnits(tid), 4>>, h[tid])

\* C4 witness: a schedule was returned whose ratio is the floor 0.25, for a
\* batch of several tasks that overruns its deadline
RatioFlooredWitness ==
    /\ Done
    /\ Overrun
    /\ RatLess(Supply, <<1, 4>>)
    /\ Len(tasks) >= 2

\* C5: the ratio is at most 1, and no rendered duration exceeds
\* max(estimated_hours, 1)
RatioAtMostOne ==
    Done =>
        /\ RatLeq(ratio, <<1, 1>>)
        /\ \A tid \in Ids :
              RatLeq(h[tid], <<Max2(EstimatedUnits(tid), Hours(1)), 1>>)

\* C6: an empty task list gives an empty schedule and no error
EmptyBatchReturnsEmpty ==
    (Ended /\ tasks = <<>>) => (pc = "returned" /\ out = <<>>)

InvalidEstimate(tid) ==
    \/ Kind(Estimate(tid)) \in {"absent", "null", "text"}
    \/ Estimate(tid) = Num(0)

\* C7: with estimates that are absent, null, zero or non-numeric no error is
\* raised, one entry per task is returned, and each such task has 2 hours in
\* the earliest-start pass and 2 hours (times the ratio) as rendered duration
InvalidEstimateDefaults ==
    (Ended /\ \E tid \in Ids : InvalidEstimate(tid)) =>
        /\ pc = "returned"
        /\ Len(out) = Len(tasks)
        /\ \A tid \in Ids : InvalidEstimate(tid) =>
              /\ dur[tid] = Hours(2)
              /\ RatEq(h[tid], <<Hours(2) * ratio[1], ratio[2]>>)

\* C8: a second run on the identical input returns the same order and the
\* same schedule as the first
SecondRunSame ==
    (run = 2 /\ Ended) =>
        /\ order = first.order
        /\ out = first.out
        /\ err = first.err

\* the arrangements of the whole batch as a chain: the first task depends on
\* nothing, every later one on exactly its predecessor
ChainOrders ==
    {p \in [1..Len(tasks) -> Ids] :
        /\ \A i, j \in 1..Len(tasks) : i # j => p[i] # p[j]
        /\ Len(tasks) >= 1 => DependsOn(p[1]) = <<>>
        /\ \A i \in 2..Len(tasks) : DependsOn(p[i]) = <<p[i - 1]>>}

\* the first task starts at start_dt, every later one at its predecessor's
\* start plus rendered duration, and every rendered duration is the estimate
ChainBackToBack(p) ==
    /\ Len(p) >= 1 => est[p[1]] = start_dt
    /\ \A i \in 2..Len(p) :
          RatEq(<<est[p[i]], 1>>,
                <<est[p[i - 1]] * h[p[i - 1]][2] + h[p[i - 1]][1],
                  h[p[i - 1]][2]>>)
    /\ \A i \in 1..Len(p) : RatEq(h[p[i]], <<Value(Estimate(p[i])), 1>>)

\* C9 as stated: with no deadline, a chain of tasks with any positive estimate
\* is scheduled back to back with the estimates as rendered durations
ChainAnyPositive ==
    (Done /\ deadline = <<>>) =>
        \A p \in ChainOrders :
            (\A i \in 1..Len(p) :
                Kind(Estimate(p[i])) = "num" /\ Value(Estimate(p[i])) > 0)
            => ChainBackToBack(p)

\* C9 amended: the same for estimates of at least one hour
ChainFromOneHour ==
    (Done /\ deadline = <<>>) =>
        \A p \in ChainOrders :
            (\A i \in 1..Len(p) :
                Kind(Estimate(p[i])) = "num"
                /\ Value(Estimate(p[i])) >= Hours(1))
            => ChainBackToBack(p)

\* C9 witness: a schedule was returned, without deadline, for a chain of three
\* tasks of differing estimates that is not in batch order
ChainFromOneHourWitness ==
    /\ Done
    /\ deadline = <<>>
    /\ \E p \in ChainOrders :
          /\ Len(p) = 3
          /\ p[1] # 1
          /\ Estimate(p[1]) = Num(Hours(8))
          /\ Estimate(p[2]) = Num(Hours(2))

\* the in-batch dependencies of tid that precede it in the computed order
EarlierDeps(tid) ==
    {d \in Ids : DepEdge(d, tid) /\ Pos(order, d) < Pos(order, tid)}

\* C10: a task starts at the latest uncompressed end (start + dur) of its
\* in-batch dependencies that precede it in the order, or at start_dt when
\* there is none; compression does not move the start
StartAfterEarlierDeps ==
    Done =>
        \A tid \in Ids :
            est[tid] = IF EarlierDeps(tid) = {} THEN start_dt
                       ELSE SetMax({est[d] + dur[d] : d \in EarlierDeps(tid)})

\* C10 witness: a compressed schedule was returned in which a task has two
\* earlier dependencies ending at different instants, and another task has
\* none but a dangling one
StartAfterEarlierDepsWitness ==
    /\ Done
    /\ Overrun
    /\ RatLess(ratio, <<1, 1>>)
    /\ \E tid \in Ids : \E a, b \in EarlierDeps(tid) :
          est[a] + dur[a] < est[b] + dur[b]
    /\ \E tid \in Ids : DependsOn(tid) = <<0>>

====
